---- MODULE Spec2Model ----
(***************************************************************************)
(* Model of src/src/index.js: the Sybase bridge.  One bridge instance     *)
(* talks to worker processes (java) over their stdin/stdout/stderr.       *)
(*                                                                         *)
(* JavaScript runs every handler to completion, so each public method and *)
(* each stream event ('data' on a worker's stdout or stderr) is one       *)
(* action.  Listener lists are program state: an event is handed to the   *)
(* listeners attached when it is emitted, in attachment order, and an     *)
(* exception thrown by one listener ends the emit (the later listeners    *)
(* are not called).  A handler that throws leaves the fields as they were *)
(* at the throw; the host may catch the error, so later actions stay      *)
(* possible.  Data already written by a worker can still arrive after the *)
(* worker was killed.                                                      *)
(*                                                                         *)
(* JSONStream (the line decoder) is not part of src/: the model takes a   *)
(* stdout chunk as its text plus the JSON values decoded from it, and     *)
(* jsonParser as an emitter that hands each value to its 'data' listeners *)
(* once per pipe feeding it.  The decoder is created once (line 40) and   *)
(* has no 'error' listener: text that is not JSON makes it emit 'error',  *)
(* which unpipes and is thrown out of the stdout event, and it decodes    *)
(* nothing afterwards.  Line 127 pipes with the default end: the 'end' of *)
(* a piped stdout ends the decoder, which then drops every value.  SQL    *)
(* text and timestamps do not influence control flow and are left out of  *)
(* the request records.                                                    *)
(*                                                                         *)
(* Observation variables (not fields of the program): connectCalls and    *)
(* subs record every invocation of the caller's callbacks, threw records  *)
(* whether the last handler ended by throwing, conts records for each     *)
(* continuation whether it found its own table entry when it ran and      *)
(* whether it is one that calls query() again when it gets a result, last *)
(* names the last operation, nEvents counts worker events to bound the    *)
(* model; the fields hs and disconnected of a worker record follow the    *)
(* lifecycle of section 4.1 of the specification for that connect attempt.*)
(***************************************************************************)
EXTENDS Integers, Sequences, FiniteSets, TLC

\* ---- bounds of the model ----
MaxWorkers == 2      \* worker processes spawned (connect attempts)
MaxSubs == 2         \* accepted query()/querySync() calls (identifiers)
MaxRejected == 1     \* query()/querySync() calls made while not connected
MaxEvents == 3       \* 'data' events of the workers' stdout and stderr
MaxResultLen == 2    \* result sets in one response
MaxReenter == 1      \* continuations that submit a query when they succeed

VARIABLES
    connected,        \* this.connected
    queryCount,       \* this.queryCount
    currentMessages,  \* this.currentMessages: the numeric keys, msgId -> request
    catKey,           \* this.currentMessages: whether the key "cat" is present
    procs,            \* the workers spawned so far; this.javaDB is the last one
    jsonParser,       \* 'data' listeners of this.jsonParser, in attachment order
    parser,           \* this.jsonParser: the decoder's state and the pipes into it
    connectCalls,     \* per connect attempt: the invocations of its callback
    subs,             \* per submission: mode, msgId and deliveries to the caller
    conts,            \* per submission: what its continuation does and saw
    threw,            \* whether the last handler ended with an error thrown
    last,             \* the last operation
    nEvents           \* worker events so far

vars == <<connected, queryCount, currentMessages, catKey, procs, jsonParser,
          parser, connectCalls, subs, conts, threw, last, nEvents>>

\* ---- values ----

\* a callback field that is null (querySync) / undefined ((1).callback)
NullCb == 0
UndefinedCb == -1

\* the err argument: null, or new Error(text) with its message (string pieces)
NoError == [isError |-> FALSE, message |-> <<>>]
Error(text) == [isError |-> TRUE, message |-> text]

\* the second argument of a continuation: not passed, one result set, or a
\* sequence of result sets
Undefined == [tag |-> "undefined", v |-> <<>>]
Null == [tag |-> "null", v |-> <<>>]
One(rs) == [tag |-> "set", v |-> <<rs>>]
Many(seq) == [tag |-> "seq", v |-> seq]
Text(t) == [tag |-> "text", v |-> t]

\* result sequences a response can carry: <<1, ..., n>>, result set i at place i
Results == {[i \in 1..n |-> i] : n \in 0..MaxResultLen}

\* decoded JSON values of the worker; hasResult/hasError: the field is present
Msgs ==
    {[msgId |-> i, hasResult |-> TRUE, result |-> r, hasError |-> FALSE, error |-> <<>>] :
        i \in 1..MaxSubs, r \in Results}
    \cup
    {[msgId |-> i, hasResult |-> hr, result |-> <<>>, hasError |-> TRUE, error |-> <<"sqlerr">>] :
        i \in 1..MaxSubs, hr \in BOOLEAN}

\* a chunk of stdout: its text, and the JSON values the line decoder finds in it
\* (none in a handshake line; the decoder itself is outside src/)
TextChunks == {[text |-> t, json |-> <<>>] : t \in {<<"connected", "\n">>, <<"boom", "\n">>}}
JsonChunks == {[text |-> <<"{json}", "\n">>, json |-> <<m>>] : m \in Msgs}
Chunks == TextChunks \cup JsonChunks

\* data of stderr
ErrTexts == {<<"stderr-text">>}

\* String.prototype.trim on a sequence of pieces
IsSpace(c) == c \in {" ", "\n"}
RECURSIVE TrimLeft(_)
TrimLeft(t) == IF t # <<>> /\ IsSpace(Head(t)) THEN TrimLeft(Tail(t)) ELSE t
RECURSIVE TrimRight(_)
TrimRight(t) ==
    IF t # <<>> /\ IsSpace(t[Len(t)]) THEN TrimRight(SubSeq(t, 1, Len(t) - 1)) ELSE t
Trim(t) == TrimRight(TrimLeft(t))

\* ---- the state as one record, so that handlers compose ----

State ==
    [connected |-> connected, queryCount |-> queryCount,
     currentMessages |-> currentMessages, catKey |-> catKey, procs |-> procs,
     jsonParser |-> jsonParser, parser |-> parser,
     connectCalls |-> connectCalls, subs |-> subs,
     conts |-> conts, threw |-> FALSE]

SetState(e) ==
    /\ connected' = e.connected
    /\ queryCount' = e.queryCount
    /\ currentMessages' = e.currentMessages
    /\ catKey' = e.catKey
    /\ procs' = e.procs
    /\ jsonParser' = e.jsonParser
    /\ parser' = e.parser
    /\ connectCalls' = e.connectCalls
    /\ subs' = e.subs
    /\ conts' = e.conts
    /\ threw' = e.threw

\* this.javaDB: the worker spawned last (0: undefined)
javaDB(e) == Len(e.procs)

\* a handler ends with an error thrown
Throw(e) == [e EXCEPT !.threw = TRUE]

\* the continuation of submission s is called with (err, result); it sees
\* whether the table still holds the entry of its own identifier
Invoke(e, s, err, result) ==
    [e EXCEPT !.subs[s].calls = Append(@, [err |-> err, result |-> result]),
              !.conts[s].pendingAtCall =
                  @ \/ (e.subs[s].msgId \in DOMAIN e.currentMessages)]

\* the callback of connect attempt w is called with (err, data)
InvokeConnect(e, w, err, data) ==
    [e EXCEPT !.connectCalls[w] = Append(@, [err |-> err, data |-> data])]

\* delete obj[k]
Delete(f, k) == [x \in DOMAIN f \ {k} |-> f[x]]

Put(f, k, v) == [x \in DOMAIN f \cup {k} |-> IF x = k THEN v ELSE f[x]]
EmptyTable == [x \in {} |-> 0]

NoChunk == [text |-> <<>>, json |-> <<>>]
Op(op, w, s, chunk) == [op |-> op, w |-> w, s |-> s, chunk |-> chunk]

\* ---- isConnected (lines 269-271) ----
isConnected(e) == e.connected

\* ---- prepareQuery (lines 156-183) ----

NotConnected == <<"Database isn't connected.">>

\* mutant: the identifier is the table's size plus one
MutNextMsgId(e) == Cardinality(DOMAIN e.currentMessages) + 1

\* lines 164, 167
NextMsgId(e) == e.queryCount + 1

\* mutant: the counter is incremented before the connection check
MutPrepareQuery(e, callback) ==
    LET id == NextMsgId(e)
        e0 == [e EXCEPT !.queryCount = id]
    IN  IF ~isConnected(e)
        THEN IF callback # NullCb
             THEN Invoke(e0, callback, Error(NotConnected), Undefined)
             ELSE e0
        ELSE [e0 EXCEPT !.currentMessages =
                            Put(@, id, [msgId |-> id, callback |-> callback])]

prepareQuery(e, callback) ==
    IF ~isConnected(e)
    THEN IF callback # NullCb                                  \* line 158
         THEN Invoke(e, callback, Error(NotConnected), Undefined)
         ELSE e
    ELSE LET id == NextMsgId(e)
         IN  [e EXCEPT !.queryCount = id,
                       !.currentMessages =
                           Put(@, id, [msgId |-> id, callback |-> callback])]

\* this.javaDB.stdin.write (lines 205, 242)
Write(e, id) == [e EXCEPT !.procs[javaDB(e)].stdin = Append(@, id)]

\* a caller makes submission Len(subs) + 1
NewSub(e, mode) ==
    [e EXCEPT !.subs = Append(@, [mode |-> mode, msgId |-> 0, calls |-> <<>>]),
              !.conts = Append(@, [reenter |-> FALSE, pendingAtCall |-> FALSE])]

\* the identifier given to submission s, noted for the observer
Assigned(e, s, accepted) ==
    IF accepted THEN [e EXCEPT !.subs[s].msgId = e.queryCount] ELSE e

\* the bounds on submissions
CanSubmitIn(e) ==
    IF e.connected THEN e.queryCount < MaxSubs
    ELSE Len(e.subs) - e.queryCount < MaxRejected

CanSubmit == CanSubmitIn(State)

\* lines 201-207 for submission s, whose record is already noted
queryCore(e, s) ==
    LET accepted == isConnected(e)
        e1 == prepareQuery(e, s)
        e2 == IF accepted THEN Write(e1, e1.queryCount) ELSE e1      \* line 205
    IN  Assigned(e2, s, accepted)

\* request.callback(err, result) (line 87) for a caller's continuation: some
\* continuations call query() again from inside when they get a result
RunContinuation(e, s, err, result) ==
    LET e1 == Invoke(e, s, err, result)
    IN  IF e1.conts[s].reenter /\ ~err.isError /\ CanSubmitIn(e1)
        THEN queryCore(NewSub(e1, "query"), Len(e1.subs) + 1)
        ELSE e1

\* ---- onSQLResponse (lines 56-88) ----

\* mutant: unwraps every non-empty result
MutUnwrapResult(result) == IF Len(result) >= 1 THEN One(result[1]) ELSE Many(result)

\* lines 62-65
UnwrapResult(result) == IF Len(result) = 1 THEN One(result[1]) ELSE Many(result)


\* line 59: the table lookup by the message's msgId
LookupKey(e, jsonMsg) == jsonMsg.msgId

\* mutant: the entry is not deleted
MutRemoveEntry(e, k) == e

\* line 60
RemoveEntry(e, k) == [e EXCEPT !.currentMessages = Delete(@, k)]

\* mutant: the entry is deleted after the continuation returns
MutOnSQLResponse(e, jsonMsg) ==
    LET k == LookupKey(e, jsonMsg)
        found == k \in DOMAIN e.currentMessages
        err == IF jsonMsg.hasError THEN Error(jsonMsg.error) ELSE NoError
    IN  IF ~jsonMsg.hasResult THEN Throw(RemoveEntry(e, k))
        ELSE IF ~found THEN Throw(e)
        ELSE IF e.currentMessages[k].callback <= 0 THEN Throw(RemoveEntry(e, k))
        ELSE RemoveEntry(RunContinuation(e, e.currentMessages[k].callback, err,
                                         UnwrapResult(jsonMsg.result)), k)

onSQLResponse(e, jsonMsg) ==
    LET k == LookupKey(e, jsonMsg)
        found == k \in DOMAIN e.currentMessages
        e1 == RemoveEntry(e, k)                                         \* line 60
        err == IF jsonMsg.hasError THEN Error(jsonMsg.error) ELSE NoError  \* 72-74
    IN  IF ~jsonMsg.hasResult THEN Throw(e1)        \* line 63: undefined.length
        ELSE IF ~found THEN Throw(e1)               \* line 69: undefined.hrstart
        ELSE IF e.currentMessages[k].callback <= 0 THEN Throw(e1)  \* line 87: null(...)
        ELSE RunContinuation(e1, e.currentMessages[k].callback, err,
                             UnwrapResult(jsonMsg.result))

\* ---- onSQLError (lines 98-112) ----

\* for..in order of the keys: integer keys ascending, then string keys
RECURSIVE SortedKeys(_)
SortedKeys(S) ==
    IF S = {} THEN <<>>
    ELSE LET m == CHOOSE x \in S : \A y \in S : x <= y
         IN  <<m>> \o SortedKeys(S \ {m})

\* lines 101-106: the collected callback fields ("cat" maps to 1, whose
\* callback is undefined)
callBackFuncitons(e) ==
    LET ks == SortedKeys(DOMAIN e.currentMessages)
    IN  [i \in 1..Len(ks) |-> e.currentMessages[ks[i]].callback]
        \o (IF e.catKey THEN <<UndefinedCb>> ELSE <<>>)

\* lines 109-111: forEach, ended by the first element that is no function
RECURSIVE ForEachCb(_, _, _)
ForEachCb(e, cbs, error) ==
    IF cbs = <<>> THEN e
    ELSE IF Head(cbs) <= 0 THEN Throw(e)
    ELSE ForEachCb(Invoke(e, Head(cbs), error, Undefined), Tail(cbs), error)

\* mutant: the fault also clears the connected flag
MutClearTable(e) ==
    [e EXCEPT !.currentMessages = EmptyTable, !.catKey = FALSE, !.connected = FALSE]

\* line 108
ClearTable(e) == [e EXCEPT !.currentMessages = EmptyTable, !.catKey = FALSE]

onSQLError(e, data) == ForEachCb(ClearTable(e), callBackFuncitons(e), Error(data))

\* ---- connectCore (lines 114-138) ----

\* pipes: the 'data' listeners that pipes into jsonParser have on this stdout;
\* ended: this stdout has emitted 'end'
NewProc == [killed |-> FALSE, stdoutOnce |-> TRUE, stderrOnce |-> TRUE,
            pipes |-> 0, stderrOn |-> 0, stdin |-> <<>>, ended |-> FALSE,
            hs |-> "Connecting", disconnected |-> FALSE]

\* lines 115, 117, 133: spawn, and attach the two handshake listeners
connectCore(e) ==
    [e EXCEPT !.procs = Append(@, NewProc), !.connectCalls = Append(@, <<>>)]

\* lines 124-130: the handshake succeeded; this.javaDB is read when the
\* listener runs
HandshakeOk(e, w, dataStr) ==
    LET cur == javaDB(e)
        e1 == [e EXCEPT !.procs[cur].stderrOnce = FALSE,      \* line 124
                        !.procs[cur].stderrOn = 1,             \* lines 124, 128
                        !.connected = TRUE,                    \* line 125
                        !.procs[cur].pipes = @ + 1,            \* line 127
                        !.parser.srcs = Append(@, [src |-> cur, by |-> w]),
                        !.jsonParser = Append(@, [fn |-> "onSQLResponse", s |-> 0])]
    IN  InvokeConnect(e1, w, NoError, Text(dataStr))           \* line 130

\* lines 119-122: the first chunk is not 'connected'
HandshakeBadLine(e, w, dataStr) ==
    InvokeConnect(e, w, Error(<<"Error connecting ">> \o dataStr), Null)

\* lines 117-131: the once-listener of worker w's stdout
onStdoutOnce(e, w, chunk) ==
    LET dataStr == Trim(chunk.text)
        e0 == [e EXCEPT !.procs[w].stdoutOnce = FALSE]
    IN  IF dataStr # <<"connected">> THEN HandshakeBadLine(e0, w, dataStr)
        ELSE HandshakeOk(e0, w, dataStr)

\* lines 133-137: the once-listener of worker w's stderr
onStderrOnce(e, w, data) ==
    LET cur == javaDB(e)
        e1 == [e EXCEPT !.procs[w].stderrOnce = FALSE,
                        !.procs[cur].stdoutOnce = FALSE,       \* line 134
                        !.procs[cur].pipes = 0,                \* line 134
                        !.procs[cur].killed = TRUE]            \* line 135
    IN  InvokeConnect(e1, w, Error(data), Null)                \* line 136

\* ---- querySync's listener onResponse (lines 232-238) ----

RemoveListener(ls, s) == SelectSeq(ls, LAMBDA l : ~(l.fn = "onResponse" /\ l.s = s))

onResponse(e, s, jsonMsg) ==
    IF jsonMsg.msgId # e.queryCount THEN e
    ELSE LET e1 == [e EXCEPT !.jsonParser = RemoveListener(@, s)]
         IN  IF jsonMsg.hasError
             THEN Invoke(e1, s, Error(jsonMsg.error), Undefined)
             ELSE Invoke(e1, s, NoError,
                         IF jsonMsg.hasResult THEN Many(jsonMsg.result) ELSE Undefined)

\* ---- event delivery ----

\* jsonParser emits 'data': the listeners attached at the emit, in order
RECURSIVE EmitParser(_, _, _)
EmitParser(e, ls, jsonMsg) ==
    IF ls = <<>> \/ e.threw THEN e
    ELSE LET l == Head(ls)
             e1 == IF l.fn = "onSQLResponse" THEN onSQLResponse(e, jsonMsg)
                   ELSE onResponse(e, l.s, jsonMsg)
         IN  EmitParser(e1, Tail(ls), jsonMsg)

\* jsonParser decodes the values of a chunk and emits each to its listeners
RECURSIVE PipeWrite(_, _)
PipeWrite(e, values) ==
    IF values = <<>> \/ e.threw THEN e
    ELSE PipeWrite(EmitParser(e, e.jsonParser, Head(values)), Tail(values))

\* the oldest pipe from worker w's stdout that is still registered
FirstPipe(e, w) ==
    CHOOSE j \in 1..Len(e.parser.srcs) :
        /\ e.parser.srcs[j].src = w
        /\ \A k \in 1..(j - 1) : e.parser.srcs[k].src # w

\* stdout.unpipe(jsonParser): the oldest pipe from worker w is removed, with
\* its 'data' listener if line 134 has not removed that already
Unpipe(e, w) ==
    IF \A j \in 1..Len(e.parser.srcs) : e.parser.srcs[j].src # w THEN e
    ELSE LET j == FirstPipe(e, w)
             rest == SubSeq(e.parser.srcs, 1, j - 1)
                        \o SubSeq(e.parser.srcs, j + 1, Len(e.parser.srcs))
             left == Cardinality({k \in 1..Len(rest) : rest[k].src = w})
         IN  [e EXCEPT !.parser.srcs = rest,
                       !.procs[w].pipes = IF @ > left THEN left ELSE @]

\* jsonParser emits 'error': every pipe has an 'error' listener on it, the
\* newest first; each unpipes its stdout and removes itself, and the one that
\* leaves no 'error' listener behind throws the error
RECURSIVE OnPipeError(_, _, _)
OnPipeError(e, listeners, attached) ==
    IF listeners = <<>> THEN Throw(e)
    ELSE LET l == Head(listeners)
             gone == IF \E j \in 1..Len(e.parser.srcs) : e.parser.srcs[j].src = l.src
                     THEN {e.parser.srcs[FirstPipe(e, l.src)].by} ELSE {}
             left == attached \ (gone \cup {l.by})
             e1 == Unpipe(e, l.src)
         IN  IF left = {} THEN Throw(e1) ELSE OnPipeError(e1, Tail(listeners), left)

Reverse(q) == [i \in 1..Len(q) |-> q[Len(q) + 1 - i]]

\* the decoder meets text that is not JSON: it stops for good and emits 'error'
DecoderError(e) ==
    OnPipeError([e EXCEPT !.parser.stopped = TRUE], Reverse(e.parser.srcs),
                {e.parser.srcs[j].by : j \in 1..Len(e.parser.srcs)})

\* jsonParser.write(chunk) by one pipe: a stopped decoder reads nothing, an
\* ended one decodes but emits nothing
ParserWrite(e, chunk) ==
    IF e.parser.stopped THEN e
    ELSE IF chunk.json = <<>> THEN DecoderError(e)
    ELSE IF e.parser.ended THEN e
    ELSE PipeWrite(e, chunk.json)

\* jsonParser.end(): the decoder ends and closes, and its 'close' unpipes
\* every stdout piped into it; a second end() does nothing
EndParser(e) ==
    IF e.parser.ended THEN e
    ELSE [e EXCEPT !.parser.ended = TRUE,
                   !.parser.srcs = <<>>,
                   !.procs = [w \in 1..Len(e.procs) |-> [e.procs[w] EXCEPT !.pipes = 0]]]

\* the 'data' listeners of the pipes, those attached at the emit
RECURSIVE Pipes(_, _, _)
Pipes(e, n, chunk) ==
    IF n = 0 \/ e.threw THEN e ELSE Pipes(ParserWrite(e, chunk), n - 1, chunk)

\* worker w's stdout emits 'data': the once-listener if attached, then the
\* pipes attached before the emit; a pipe made from a stdout that has ended
\* ends the decoder right after the event
EmitStdout(e, w, chunk) ==
    LET e1 == IF e.procs[w].stdoutOnce THEN onStdoutOnce(e, w, chunk) ELSE e
        e2 == Pipes(e1, e.procs[w].pipes, chunk)
        piped == Len(e1.parser.srcs) > Len(e.parser.srcs)
    IN  IF piped /\ e.procs[javaDB(e)].ended THEN EndParser(e2) ELSE e2

\* worker w's stdout emits 'end': each pipe from it calls jsonParser.end()
EmitEnd(e, w) ==
    LET e1 == [e EXCEPT !.procs[w].ended = TRUE]
    IN  IF \E j \in 1..Len(e.parser.srcs) : e.parser.srcs[j].src = w
        THEN EndParser(e1) ELSE e1

RECURSIVE Faults(_, _, _)
Faults(e, n, data) ==
    IF n = 0 \/ e.threw THEN e ELSE Faults(onSQLError(e, data), n - 1, data)

\* worker w's stderr emits 'data'
EmitStderr(e, w, data) ==
    LET e1 == IF e.procs[w].stderrOnce THEN onStderrOnce(e, w, data) ELSE e
    IN  Faults(e1, e.procs[w].stderrOn, data)

\* ---- the lifecycle of section 4.1, observed per connect attempt ----

\* the first output line of worker w decides its handshake
ObserveStdout(e, w, chunk) ==
    IF e.procs[w].hs # "Connecting" THEN e
    ELSE [e EXCEPT !.procs[w].hs =
             IF Trim(chunk.text) = <<"connected">> THEN "Connected" ELSE "Failed"]

\* error-stream data before the handshake completes fails it
ObserveStderr(e, w) ==
    IF e.procs[w].hs # "Connecting" THEN e ELSE [e EXCEPT !.procs[w].hs = "Failed"]

ObserveDisconnect(e) ==
    IF javaDB(e) = 0 THEN e ELSE [e EXCEPT !.procs[javaDB(e)].disconnected = TRUE]

\* the lifecycle state of the bridge: that of the current attempt
Lifecycle ==
    IF Len(procs) = 0 \/ procs[Len(procs)].disconnected THEN "Disconnected"
    ELSE procs[Len(procs)].hs

\* ---- actions ----

Init ==
    /\ connected = FALSE                  \* line 16
    /\ queryCount = 0                     \* line 37
    /\ currentMessages = EmptyTable       \* line 38
    /\ catKey = TRUE                      \* line 38: { cat: 1 }
    /\ procs = <<>>
    /\ jsonParser = <<>>                  \* line 40
    /\ parser = [stopped |-> FALSE, ended |-> FALSE, srcs |-> <<>>]
    /\ connectCalls = <<>>
    /\ subs = <<>>
    /\ conts = <<>>
    /\ threw = FALSE
    /\ last = Op("new", 0, 0, NoChunk)
    /\ nEvents = 0

\* lines 140-142
connect ==
    /\ Len(procs) < MaxWorkers
    /\ SetState(connectCore(State))
    /\ last' = Op("connect", Len(procs) + 1, 0, NoChunk)
    /\ UNCHANGED nEvents

\* lines 144-154
connectAsync ==
    /\ Len(procs) < MaxWorkers
    /\ SetState(connectCore(State))
    /\ last' = Op("connectAsync", Len(procs) + 1, 0, NoChunk)
    /\ UNCHANGED nEvents

\* lines 201-207
query ==
    /\ CanSubmit
    /\ \E r \in BOOLEAN :
          /\ r => Cardinality({t \in 1..Len(conts) : conts[t].reenter}) < MaxReenter
          /\ LET s == Len(subs) + 1
                 e0 == [NewSub(State, "query") EXCEPT !.conts[s].reenter = r]
             IN  /\ SetState(queryCore(e0, s))
                 /\ last' = Op("query", 0, s, NoChunk)
    /\ UNCHANGED nEvents

\* lines 224-245
querySync ==
    /\ CanSubmit
    /\ LET s == Len(subs) + 1
           accepted == isConnected(State)
           e1 == prepareQuery(NewSub(State, "querySync"), NullCb)
           e2 == IF accepted
                 THEN Write([e1 EXCEPT !.jsonParser =
                                Append(@, [fn |-> "onResponse", s |-> s])],
                            e1.queryCount)
                 ELSE Invoke(e1, s, Error(NotConnected), Undefined)   \* line 228
       IN  /\ SetState(Assigned(e2, s, accepted))
           /\ last' = Op("querySync", 0, s, NoChunk)
    /\ UNCHANGED nEvents

\* lines 254-257
disconnect ==
    /\ LET cur == javaDB(State)
       IN  IF cur = 0 THEN SetState(Throw(State))   \* line 255: undefined.kill
           ELSE SetState(ObserveDisconnect(
                    [State EXCEPT !.procs[cur].killed = TRUE,
                                  !.connected = FALSE]))
    /\ last' = Op("disconnect", Len(procs), 0, NoChunk)
    /\ UNCHANGED nEvents

\* a chunk arrives on worker w's stdout
StdoutData(w, chunk) ==
    /\ nEvents < MaxEvents
    /\ ~procs[w].ended
    /\ SetState(EmitStdout(ObserveStdout(State, w, chunk), w, chunk))
    /\ last' = Op("stdout", w, 0, chunk)
    /\ nEvents' = nEvents + 1

\* data arrives on worker w's stderr
StderrData(w, data) ==
    /\ nEvents < MaxEvents
    /\ SetState(EmitStderr(ObserveStderr(State, w), w, data))
    /\ last' = Op("stderr", w, 0, [text |-> data, json |-> <<>>])
    /\ nEvents' = nEvents + 1

\* worker w has exited (or was killed): its stdout ends
StdoutEnd(w) ==
    /\ ~procs[w].ended
    /\ SetState(EmitEnd(State, w))
    /\ last' = Op("end", w, 0, NoChunk)
    /\ UNCHANGED nEvents

Next ==
    \/ connect
    \/ connectAsync
    \/ query
    \/ querySync
    \/ disconnect
    \/ \E w \in 1..Len(procs), chunk \in Chunks : StdoutData(w, chunk)
    \/ \E w \in 1..Len(procs), data \in ErrTexts : StderrData(w, data)
    \/ \E w \in 1..Len(procs) : StdoutEnd(w)

Spec == Init /\ [][Next]_vars

\* What a worker writes to its streams reaches the listeners: the event loop
\* does not postpone a 'data' event forever. The calls of the program's user
\* are under no such obligation.
LiveSpec ==
    /\ Spec
    /\ WF_vars(\E w \in 1..Len(procs), chunk \in Chunks : StdoutData(w, chunk))
    /\ WF_vars(\E w \in 1..Len(procs), data \in ErrTexts : StderrData(w, data))

\* ---- properties ----

\* the step is a 'data' event of a worker's stdout that carries the JSON
\* value m and is piped into jsonParser
Responds(m) ==
    /\ last'.op = "stdout"
    /\ nEvents' = nEvents + 1
    /\ last'.chunk.json = <<m>>
    /\ procs[last'.w].pipes >= 1

\* the step hands the decoded value m to the listeners of jsonParser
Delivers(m) ==
    /\ Responds(m)
    /\ ~parser.stopped
    /\ ~parser.ended

\* the step is a 'data' event of a stderr that has an onSQLError listener
ChannelFault ==
    /\ last'.op = "stderr"
    /\ nEvents' = nEvents + 1
    /\ procs[last'.w].stderrOn >= 1

\* msgId id is pending for a callback-style request
PendingQuery(id) ==
    id \in DOMAIN currentMessages /\ currentMessages[id].callback > 0

ErrOf(m) ==
    IF m.hasError THEN [isError |-> TRUE, message |-> m.error]
    ELSE [isError |-> FALSE, message |-> <<>>]

\* C1: a response (with a result field) that a worker which has written
\* nothing but JSON sends for a pending callback-style msgId invokes the
\* continuation of the submission that was given that msgId, for the first
\* time, with the error and result content of that very response; and no
\* response invokes a callback-style continuation of another msgId.
C1_ResponseReachesItsSubmission ==
    [][\A m \in Msgs : (Responds(m) /\ ~parser.stopped) =>
          /\ (m.hasResult /\ PendingQuery(m.msgId)) =>
                LET s == currentMessages[m.msgId].callback
                IN  /\ subs[s].msgId = m.msgId
                    /\ Len(subs'[s].calls) = 1
                    /\ subs'[s].calls[1].err = ErrOf(m)
                    /\ subs'[s].calls[1].result.v = m.result
                    /\ m.msgId \notin DOMAIN currentMessages'
          /\ \A s \in 1..Len(subs) :
                (subs[s].mode = "query" /\ subs'[s].calls # subs[s].calls)
                    => subs[s].msgId = m.msgId]_vars

\* C2: no continuation passed to query() has been invoked more than once.
C2_AtMostOnce ==
    \A s \in 1..Len(subs) : subs[s].mode = "query" => Len(subs[s].calls) <= 1

\* a response repeats the msgId of a query whose continuation already ran, on a
\* second connection of the same bridge
C2_Witness ==
    /\ last.op = "stdout" /\ last.chunk.json # <<>> /\ last.chunk.json[1].hasResult
    /\ last.w = 2 /\ procs[1].disconnected
    /\ \E s \in 1..Len(subs) :
          /\ subs[s].mode = "query"
          /\ subs[s].msgId = last.chunk.json[1].msgId
          /\ Len(subs[s].calls) = 1
          /\ subs[s].calls[1].result.tag # "undefined"
    /\ threw

\* the accepted submissions among the first s
Accepted(s) == {t \in 1..s : subs[t].msgId # 0}

\* C3: the identifiers of the accepted submissions are 1, 2, 3, ... in
\* submission order, the counter is the number of accepted submissions, and
\* every table entry is stored under its own identifier.
C3_IdentifiersCount ==
    /\ \A s \in 1..Len(subs) :
          subs[s].msgId # 0 => subs[s].msgId = Cardinality(Accepted(s))
    /\ queryCount = Cardinality(Accepted(Len(subs)))
    /\ \A id \in DOMAIN currentMessages : currentMessages[id].msgId = id

\* accepted and completed, rejected, accepted again
C3_Witness ==
    /\ Len(subs) = 3
    /\ subs[1].msgId = 1 /\ subs[1].calls # <<>>
    /\ subs[2].msgId = 0
    /\ subs[3].msgId = 2

\* C4: a submission made while not connected delivers the not-connected error
\* to its caller and changes nothing else.
C4_RejectedChangesNothing ==
    [][(last'.op \in {"query", "querySync"} /\ Len(subs') = Len(subs) + 1
            /\ ~connected) =>
          /\ subs' = Append(subs,
                [mode |-> last'.op, msgId |-> 0,
                 calls |-> <<[err |-> [isError |-> TRUE,
                                      message |-> <<"Database isn't connected.">>],
                              result |-> [tag |-> "undefined", v |-> <<>>]]>>])
          /\ queryCount' = queryCount
          /\ currentMessages' = currentMessages
          /\ catKey' = catKey
          /\ procs' = procs
          /\ jsonParser' = jsonParser
          /\ parser' = parser
          /\ connected' = connected
          /\ connectCalls' = connectCalls
          /\ ~threw']_vars

\* a querySync rejected after a disconnect that left a request pending
C4_Witness ==
    /\ last.op = "querySync"
    /\ subs[last.s].msgId = 0
    /\ Len(subs[last.s].calls) = 1
    /\ currentMessages # EmptyTable
    /\ queryCount = 1

\* C5: a channel fault invokes the continuation of every pending callback-style
\* request with a failure built from the error-stream text and empties the table.
C5_FaultFailsAllPending ==
    [][ChannelFault =>
          /\ \A id \in DOMAIN currentMessages :
                currentMessages[id].callback > 0 =>
                    subs'[currentMessages[id].callback].calls =
                        <<[err |-> [isError |-> TRUE, message |-> last'.chunk.text],
                           result |-> [tag |-> "undefined", v |-> <<>>]]>>
          /\ currentMessages' = EmptyTable]_vars

\* C6: a response whose msgId has no table entry invokes nothing, raises no
\* error, and leaves the table and the counter unchanged.
C6_UnknownIsDropped ==
    [][\A m \in Msgs :
          (Delivers(m) /\ m.hasResult /\ m.msgId \notin DOMAIN currentMessages) =>
              /\ ~threw'
              /\ subs' = subs
              /\ currentMessages' = currentMessages
              /\ queryCount' = queryCount]_vars

\* C7: the payload given to the continuation of a pending callback-style request
\* is result[0] when result has length 1 and the result sequence otherwise.
C7_UnwrapSingle ==
    [][\A m \in Msgs :
          (Delivers(m) /\ m.hasResult /\ PendingQuery(m.msgId)) =>
              LET s == currentMessages[m.msgId].callback
              IN  /\ subs'[s].calls # <<>>
                  /\ subs'[s].calls[1].result =
                        IF Len(m.result) = 1
                        THEN [tag |-> "set", v |-> <<m.result[1]>>]
                        ELSE [tag |-> "seq", v |-> m.result]]_vars

\* one continuation got a bare result set, another a sequence of two
C7_Witness ==
    \E s, t \in 1..Len(subs) :
        /\ subs[s].calls # <<>> /\ subs[s].calls[1].result = [tag |-> "set", v |-> <<1>>]
        /\ subs[t].calls # <<>> /\ subs[t].calls[1].result = [tag |-> "seq", v |-> <<1, 2>>]
        /\ ~threw

\* C8: the callback of one connect attempt is invoked at most once.
C8_ConnectCallbackOnce ==
    \A w \in 1..Len(connectCalls) : Len(connectCalls[w]) <= 1

\* text occurs in msg
Embeds(msg, text) ==
    \E i \in 1..Len(msg) :
        i + Len(text) - 1 <= Len(msg) /\ SubSeq(msg, i, i + Len(text) - 1) = text

\* the step fails the handshake of worker last'.w: its first output is not
\* 'connected', or its error stream speaks first
HandshakeFails ==
    /\ nEvents' = nEvents + 1
    /\ \/ /\ last'.op = "stdout"
          /\ procs[last'.w].stdoutOnce
          /\ Trim(last'.chunk.text) # <<"connected">>
       \/ /\ last'.op = "stderr"
          /\ procs[last'.w].stderrOnce

\* C9: on every handshake failure the worker is terminated, the connect
\* callback receives an error embedding the offending text, and isConnected()
\* is false.
C9_FailureKillsWorker ==
    [][HandshakeFails =>
          LET w == last'.w
              n == Len(connectCalls'[w])
          IN  /\ procs'[w].killed
              /\ n >= 1
              /\ connectCalls'[w][n].err.isError
              /\ Embeds(connectCalls'[w][n].err.message, Trim(last'.chunk.text))
              /\ ~connected']_vars

\* C10: isConnected() is true exactly in the Connected state of the lifecycle.
C10_ConnectedIffLifecycle ==
    connected <=> (Lifecycle = "Connected")

\* C11: an error response for a pending callback-style msgId fails exactly
\* that request: its continuation gets the error text, no other request's
\* continuation or promise is touched, and every other entry stays pending.
C11_ErrorOnlyToItsRequest ==
    [][\A m \in Msgs :
          (Delivers(m) /\ m.hasError /\ m.hasResult /\ PendingQuery(m.msgId)) =>
              LET s == currentMessages[m.msgId].callback
              IN  /\ Len(subs'[s].calls) = 1
                  /\ subs'[s].calls[1].err = [isError |-> TRUE, message |-> m.error]
                  /\ \A t \in 1..Len(subs) : t # s => subs'[t].calls = subs[t].calls
                  /\ \A id \in DOMAIN currentMessages \ {m.msgId} :
                        /\ id \in DOMAIN currentMessages'
                        /\ currentMessages'[id] = currentMessages[id]]_vars

\* msgId id is pending for querySync submission s, whose listener is attached
PendingSync(s, id) ==
    /\ s \in 1..Len(subs)
    /\ subs[s].mode = "querySync"
    /\ subs[s].msgId = id
    /\ id \in DOMAIN currentMessages
    /\ \E i \in 1..Len(jsonParser) :
          jsonParser[i].fn = "onResponse" /\ jsonParser[i].s = s

\* C12: the response that carries the msgId of a pending querySync settles its
\* promise, once, and detaches its listener; no other response settles it.
C12_SyncSettledByItsResponse ==
    [][\A m \in Msgs : Delivers(m) =>
          \A s \in 1..Len(subs) :
              /\ (m.hasResult /\ PendingSync(s, m.msgId)) =>
                    /\ Len(subs'[s].calls) = 1
                    /\ \A i \in 1..Len(jsonParser') :
                          ~(jsonParser'[i].fn = "onResponse" /\ jsonParser'[i].s = s)
              /\ (subs[s].mode = "querySync" /\ subs'[s].calls # subs[s].calls)
                    => subs[s].msgId = m.msgId]_vars

\* query() submission s was accepted and its entry has left the table
Removed(s) ==
    /\ s <= Len(subs)
    /\ subs[s].mode = "query"
    /\ subs[s].msgId # 0
    /\ subs[s].msgId \notin DOMAIN currentMessages

\* the continuation of a query() is reached only through its table entry: the
\* entry leaves the table only in a worker event, and a continuation not yet
\* invoked when the entry is gone is not invoked later
OnlyThroughEntry ==
    [][\A s \in 1..Len(subs) :
          /\ (subs[s].mode = "query" /\ PendingQuery(subs[s].msgId)
                 /\ subs[s].msgId \notin DOMAIN currentMessages') =>
                 last'.op \in {"stdout", "stderr"}
          /\ (Removed(s) /\ subs[s].calls = <<>>) => subs'[s].calls = <<>>]_vars

\* C13: the continuation of an accepted query() whose entry a worker event has
\* taken out of the table has been invoked. By OnlyThroughEntry a state where
\* it has not is one from which no delivery of worker events, however fair,
\* invokes it.
C13_WorkerEventCompletes ==
    \A s \in 1..Len(subs) : Removed(s) => subs[s].calls # <<>>

\* C14: a response for a pending callback-style msgId that carries error but no
\* result raises nothing: the entry is removed and the continuation is invoked
\* once with a failure carrying the error text.
C14_MissingResultTolerated ==
    [][\A m \in Msgs :
          (Delivers(m) /\ ~m.hasResult /\ m.hasError /\ PendingQuery(m.msgId)) =>
              LET s == currentMessages[m.msgId].callback
              IN  /\ ~threw'
                  /\ m.msgId \notin DOMAIN currentMessages'
                  /\ Len(subs'[s].calls) = 1
                  /\ subs'[s].calls[1].err = [isError |-> TRUE, message |-> m.error]]_vars

\* C15: no continuation of query() finds the entry of its own identifier in the
\* table when it runs; and a query submitted from inside a continuation that
\* got a result is given the next, larger identifier and is pending when the
\* response has been handled.
C15_RemovedBeforeInvoked ==
    [][/\ \A s \in 1..Len(subs') :
             subs'[s].mode = "query" => ~conts'[s].pendingAtCall
       /\ \A m \in Msgs :
             (Delivers(m) /\ m.hasResult /\ ~m.hasError /\ PendingQuery(m.msgId)
                 /\ conts[currentMessages[m.msgId].callback].reenter
                 /\ connected /\ queryCount < MaxSubs) =>
                 LET t == Len(subs) + 1
                 IN  /\ Len(subs') = t
                     /\ subs'[t].msgId = queryCount + 1
                     /\ subs'[t].msgId > m.msgId
                     /\ subs'[t].msgId \in DOMAIN currentMessages'
                     /\ currentMessages'[subs'[t].msgId].callback = t
                     /\ m.msgId \notin DOMAIN currentMessages']_vars

\* the continuation of query 1 got its result and submitted query 2 from inside
C15_Witness ==
    /\ last.op = "stdout" /\ ~threw
    /\ Len(subs) = 2
    /\ conts[1].reenter /\ Len(subs[1].calls) = 1 /\ ~subs[1].calls[1].err.isError
    /\ subs[1].msgId = 1 /\ subs[2].msgId = 2
    /\ DOMAIN currentMessages = {2}
    /\ procs[javaDB(State)].stdin = <<1, 2>>

\* the fields of a worker record that are program state
CodeFields(p) ==
    [killed |-> p.killed, stdoutOnce |-> p.stdoutOnce, stderrOnce |-> p.stderrOnce,
     pipes |-> p.pipes, stderrOn |-> p.stderrOn, stdin |-> p.stdin,
     ended |-> p.ended]

\* C16: a channel fault leaves the connected flag, the counter, the workers and
\* the listeners as they are; and a query made while connected after a fault is
\* accepted: it gets the next identifier, is in the table and is written to the
\* worker.
C16_FaultChangesOnlyTable ==
    [][/\ ChannelFault =>
             /\ connected' = connected
             /\ queryCount' = queryCount
             /\ jsonParser' = jsonParser
             /\ parser' = parser
             /\ Len(procs') = Len(procs)
             /\ \A w \in 1..Len(procs) : CodeFields(procs'[w]) = CodeFields(procs[w])
       /\ (last'.op = "query" /\ Len(subs') = Len(subs) + 1 /\ ~catKey /\ connected) =>
             LET s == Len(subs')
                 cur == Len(procs)
             IN  /\ queryCount' = queryCount + 1
                 /\ subs'[s].msgId = queryCount'
                 /\ queryCount' \in DOMAIN currentMessages'
                 /\ currentMessages'[queryCount'].callback = s
                 /\ procs'[cur].stdin = Append(procs[cur].stdin, queryCount')]_vars

\* a fault failed query 1, the bridge is still connected and query 2 was
\* accepted afterwards
C16_Witness ==
    /\ last.op = "query" /\ connected /\ ~catKey
    /\ Len(subs) = 2
    /\ Len(subs[1].calls) = 1 /\ subs[1].calls[1].err.message = <<"stderr-text">>
    /\ subs[2].msgId = 2 /\ DOMAIN currentMessages = {2}
    /\ ~procs[Len(procs)].killed

\* C17: a channel fault delivers the failure to every pending request, the
\* promise of a pending querySync included.
C17_FaultFailsSyncToo ==
    [][ChannelFault =>
          \A s \in 1..Len(subs) :
              subs[s].msgId \in DOMAIN currentMessages =>
                  /\ Len(subs'[s].calls) = 1
                  /\ subs'[s].calls[1].err =
                        [isError |-> TRUE, message |-> last'.chunk.text]]_vars

\* C18: at every channel fault each key of the table maps to a request with an
\* invocable continuation, and handling the fault raises no error.
C18_FaultHandlerNeverThrows ==
    [][ChannelFault =>
          /\ ~catKey
          /\ \A id \in DOMAIN currentMessages : currentMessages[id].callback > 0
          /\ ~threw']_vars

\* the onSQLResponse listeners attached to jsonParser
DispatchHandlers == {i \in 1..Len(jsonParser) : jsonParser[i].fn = "onSQLResponse"}

\* C19: whenever the bridge is connected exactly one dispatch handler is
\* attached to the message feed.
C19_OneDispatchHandler ==
    connected => Cardinality(DispatchHandlers) = 1

\* C20: once disconnect() has been called, isConnected() is false until
\* connect() is called again.
C20_DisconnectedStaysFalse ==
    (Len(procs) > 0 /\ procs[Len(procs)].disconnected) => ~connected

====
